---- MODULE Spec2Model ----
(***************************************************************************)
(* Model of src/path_normalize.rs: normalize_path_with_options and the     *)
(* platform pieces it calls (Path::components, PathBuf::push/pop,          *)
(* fs::canonicalize, dunce::simplified).                                   *)
(*                                                                         *)
(* A path text is a sequence of one-character strings.  A PathBuf under    *)
(* construction is kept as the record of its components                    *)
(*   [prefix, drive, root, names]                                          *)
(* and turned into text by Render when it is returned.                     *)
(***************************************************************************)
EXTENDS Naturals, Sequences, FiniteSets, TLC

\* ------------------------------------------------------------------ bounds
\* longest input text enumerated over PathChars
MaxLen == 3
\* deepest directory of the modelled filesystem
MaxDepth == 2
\* filesystem mutations a concurrent process performs
MaxFsOps == 2

\* ------------------------------------------------------------------ text
LowerChars == <<"a","b","c","d","e","f","g","h","i","j","k","l","m",
                "n","o","p","q","r","s","t","u","v","w","x","y","z">>
UpperChars == <<"A","B","C","D","E","F","G","H","I","J","K","L","M",
                "N","O","P","Q","R","S","T","U","V","W","X","Y","Z">>

IsLower(c) == \E i \in 1..26 : LowerChars[i] = c
IsUpper(c) == \E i \in 1..26 : UpperChars[i] = c
IsLetter(c) == IsLower(c) \/ IsUpper(c)

\* u8::to_ascii_uppercase on one character
to_ascii_uppercase_char(c) ==
    IF IsLower(c) THEN UpperChars[CHOOSE i \in 1..26 : LowerChars[i] = c] ELSE c

\* str::to_ascii_uppercase
to_ascii_uppercase(text) ==
    [i \in 1..Len(text) |-> to_ascii_uppercase_char(text[i])]

RESERVED_NAMES ==
    { <<"A","U","X">>, <<"N","U","L">>, <<"P","R","N">>, <<"C","O","N">>,
      <<"C","O","M","1">>, <<"C","O","M","2">>, <<"C","O","M","3">>,
      <<"C","O","M","4">>, <<"C","O","M","5">>, <<"C","O","M","6">>,
      <<"C","O","M","7">>, <<"C","O","M","8">>, <<"C","O","M","9">>,
      <<"L","P","T","1">>, <<"L","P","T","2">>, <<"L","P","T","3">>,
      <<"L","P","T","4">>, <<"L","P","T","5">>, <<"L","P","T","6">>,
      <<"L","P","T","7">>, <<"L","P","T","8">>, <<"L","P","T","9">> }

\* faulty variant: the comparison forgets the case fold
is_reserved_path_case_sensitive(path, win) ==
    win /\ path \in RESERVED_NAMES

\* is_reserved_path: only the cfg(windows) build holds the comparison
is_reserved_path(path, win) ==
    win /\ to_ascii_uppercase(path) \in RESERVED_NAMES

\* ------------------------------------------------------------ components
NormalizeMode == {"Strict", "Hybrid", "Lexical"}

\* NormalizeMode's #[default]
DefaultMode == "Lexical"

IsSep(c, win) == c = "/" \/ (win /\ c = "\\")

MainSep(win) == IF win THEN "\\" ELSE "/"

\* the prefix std::path parses on this platform:
\* \\?\X: (verbatim disk) and X: (disk) on Windows, none elsewhere
PrefixKind(text, win) ==
    IF ~win THEN "none"
    ELSE IF Len(text) >= 6 /\ SubSeq(text, 1, 4) = <<"\\","\\","?","\\">>
            /\ IsLetter(text[5]) /\ text[6] = ":" THEN "vdisk"
    ELSE IF Len(text) >= 2 /\ IsLetter(text[1]) /\ text[2] = ":" THEN "disk"
    ELSE "none"

PrefixLen(text, win) ==
    CASE PrefixKind(text, win) = "vdisk" -> 6
      [] PrefixKind(text, win) = "disk" -> 2
      [] OTHER -> 0

PrefixDrive(text, win) ==
    CASE PrefixKind(text, win) = "vdisk" -> text[5]
      [] PrefixKind(text, win) = "disk" -> text[1]
      [] OTHER -> ""

AfterPrefix(text, win) == SubSeq(text, PrefixLen(text, win) + 1, Len(text))

HasRoot(text, win) ==
    LET rest == AfterPrefix(text, win)
    IN  Len(rest) >= 1 /\ IsSep(rest[1], win)

\* the segments between separators, empty ones included
RECURSIVE SplitSegments(_, _, _, _)
SplitSegments(rest, win, cur, acc) ==
    IF rest = <<>> THEN Append(acc, cur)
    ELSE IF IsSep(Head(rest), win)
         THEN SplitSegments(Tail(rest), win, <<>>, Append(acc, cur))
         ELSE SplitSegments(Tail(rest), win, Append(cur, Head(rest)), acc)

Segments(text, win) == SplitSegments(AfterPrefix(text, win), win, <<>>, <<>>)

Dot == <<".">>
DotDot == <<".", ".">>

PrefixComp(kind, drive) == [kind |-> "Prefix", name |-> <<kind, drive>>]
RootDir == [kind |-> "RootDir", name |-> <<>>]
CurDir == [kind |-> "CurDir", name |-> <<>>]
ParentDir == [kind |-> "ParentDir", name |-> <<>>]
Normal(n) == [kind |-> "Normal", name |-> n]

\* Components::include_cur_dir: a leading "." survives only in a rootless path
IncludeCurDir(text, win) ==
    LET rest == AfterPrefix(text, win)
    IN  /\ ~HasRoot(text, win)
        /\ Len(rest) >= 1 /\ rest[1] = "."
        /\ (Len(rest) = 1 \/ IsSep(rest[2], win))

RECURSIVE SegComps(_, _, _)
SegComps(segs, i, keepDot) ==
    IF i > Len(segs) THEN <<>>
    ELSE LET s == segs[i]
             here == IF s = <<>> THEN <<>>
                     ELSE IF s = Dot THEN (IF i = 1 /\ keepDot THEN <<CurDir>> ELSE <<>>)
                     ELSE IF s = DotDot THEN <<ParentDir>>
                     ELSE <<Normal(s)>>
         IN  here \o SegComps(segs, i + 1, keepDot)

\* Path::components
Components(text, win) ==
    (IF PrefixKind(text, win) # "none"
        THEN <<PrefixComp(PrefixKind(text, win), PrefixDrive(text, win))>> ELSE <<>>)
    \o (IF HasRoot(text, win) THEN <<RootDir>> ELSE <<>>)
    \o SegComps(Segments(text, win), 1, IncludeCurDir(text, win))

\* ---------------------------------------------------------------- PathBuf
\* a PathBuf as its components: prefix kind and drive, root marker, names
PathBufOf(prefix, drive, root, names) ==
    [prefix |-> prefix, drive |-> drive, root |-> root, names |-> names]

NoPath == PathBufOf("none", "", FALSE, <<>>)

RECURSIVE Join(_, _)
Join(names, sep) ==
    IF names = <<>> THEN <<>>
    ELSE IF Len(names) = 1 THEN names[1]
    ELSE names[1] \o <<sep>> \o Join(Tail(names), sep)

\* PathBuf::as_os_str of a buffer built by canonicalize, push and pop
Render(pb, win) ==
    (CASE pb.prefix = "disk" -> <<pb.drive, ":">>
       [] pb.prefix = "vdisk" -> <<"\\", "\\", "?", "\\", pb.drive, ":">>
       [] OTHER -> <<>>)
    \o (IF pb.root THEN <<MainSep(win)>> ELSE <<>>)
    \o Join(pb.names, MainSep(win))

\* faulty variant: pop removes nothing
PopNothing(pb) == pb

\* faulty variant: pop also removes what is left at the root
PopPastRoot(pb) ==
    IF pb.names # <<>>
        THEN [pb EXCEPT !.names = SubSeq(pb.names, 1, Len(pb.names) - 1)]
        ELSE NoPath

\* PathBuf::pop: truncates to parent(); a buffer ending in its root or prefix
\* has no parent and is left as it is
Pop(pb) ==
    IF pb.names # <<>>
        THEN [pb EXCEPT !.names = SubSeq(pb.names, 1, Len(pb.names) - 1)]
        ELSE pb

\* faulty variant: every pushed component is appended as a name, the root marker too
PushAppendOnly(pb, c) ==
    [pb EXCEPT !.names = Append(pb.names,
        CASE c.kind = "RootDir" -> <<>>
          [] c.kind = "Prefix" -> <<c.name[2], ":">>
          [] OTHER -> c.name)]

\* PathBuf::push of one component: a prefix replaces the buffer, a root marker
\* truncates it to its prefix and root, a name is appended after a separator
Push(pb, c) ==
    CASE c.kind = "Prefix" -> PathBufOf(c.name[1], c.name[2], FALSE, <<>>)
      [] c.kind = "RootDir" -> PathBufOf(pb.prefix, pb.drive, TRUE, <<>>)
      [] OTHER -> [pb EXCEPT !.names = Append(pb.names, c.name)]

\* ----------------------------------------------------------------- dunce
InvalidNameChars == {"<", ">", ":", "\"", "/", "\\", "|", "?", "*"}

RECURSIVE Stem(_)
Stem(name) ==
    IF name = <<>> \/ Head(name) = "." THEN <<>>
    ELSE <<Head(name)>> \o Stem(Tail(name))

\* dunce: is_valid_filename and not is_reserved
SafeName(name) ==
    /\ \A i \in 1..Len(name) : name[i] \notin InvalidNameChars
    /\ name # <<>> => name[Len(name)] \notin {".", " "}
    /\ to_ascii_uppercase(Stem(name)) \notin RESERVED_NAMES

\* dunce::simplified: \\?\X:\... becomes X:\... when every name allows it;
\* the identity on platforms without verbatim prefixes
Simplified(pb, win) ==
    IF win /\ pb.prefix = "vdisk" /\ \A i \in 1..Len(pb.names) : SafeName(pb.names[i])
        THEN [pb EXCEPT !.prefix = "disk"]
        ELSE pb

\* ------------------------------------------------------------ filesystem
\* the filesystem the process sees: its working directory, the directories
\* that exist (the root always does) and those that refuse access;
\* on Windows all of it lies on one drive
WinDrive == "N"

Exists(fs, dir) == dir = <<>> \/ dir \in fs.exists

OkPath(pb) == [kind |-> "Ok", err |-> "", pb |-> pb]
Failure(err) == [kind |-> "Err", err |-> err, pb |-> NoPath]

Parent(dir) == IF dir = <<>> THEN <<>> ELSE SubSeq(dir, 1, Len(dir) - 1)

\* realpath(3): every step looks a name up in a directory that must be
\* searchable; a missing name ends the walk
RECURSIVE WalkUnix(_, _, _, _)
WalkUnix(fs, segs, i, cur) ==
    IF i > Len(segs) THEN OkPath(PathBufOf("none", "", TRUE, cur))
    ELSE IF segs[i] = <<>> THEN WalkUnix(fs, segs, i + 1, cur)
    ELSE IF cur \in fs.denied THEN Failure("PermissionDenied")
    ELSE IF segs[i] = Dot THEN WalkUnix(fs, segs, i + 1, cur)
    ELSE IF segs[i] = DotDot THEN WalkUnix(fs, segs, i + 1, Parent(cur))
    ELSE IF ~Exists(fs, Append(cur, segs[i])) THEN Failure("NotFound")
    ELSE WalkUnix(fs, segs, i + 1, Append(cur, segs[i]))

\* GetFullPathNameW: "." and ".." are resolved on the text
RECURSIVE FullPathWin(_, _, _)
FullPathWin(segs, i, cur) ==
    IF i > Len(segs) THEN cur
    ELSE IF segs[i] = <<>> \/ segs[i] = Dot THEN FullPathWin(segs, i + 1, cur)
    ELSE IF segs[i] = DotDot THEN FullPathWin(segs, i + 1, Parent(cur))
    ELSE FullPathWin(segs, i + 1, Append(cur, segs[i]))

CanonicalizeWin(fs, text) ==
    LET full == FullPathWin(Segments(text, TRUE), 1,
                            IF HasRoot(text, TRUE) THEN <<>> ELSE fs.cwd)
    IN  IF text = <<>> THEN Failure("NotFound")
        ELSE IF PrefixKind(text, TRUE) # "none"
                /\ to_ascii_uppercase_char(PrefixDrive(text, TRUE)) # WinDrive
             THEN Failure("NotFound")
        ELSE IF ~Exists(fs, full) THEN Failure("NotFound")
        ELSE IF full \in fs.denied THEN Failure("PermissionDenied")
        ELSE OkPath(PathBufOf("vdisk", WinDrive, TRUE, full))

CanonicalizeUnix(fs, text) ==
    IF text = <<>> THEN Failure("NotFound")
    ELSE IF HasRoot(text, FALSE) THEN WalkUnix(fs, Segments(text, FALSE), 1, <<>>)
    ELSE IF ~Exists(fs, fs.cwd) THEN Failure("NotFound")
    ELSE WalkUnix(fs, Segments(text, FALSE), 1, fs.cwd)

\* fs::canonicalize against the filesystem as it is when the call is made
Canonicalize(fs, text, win) ==
    IF win THEN CanonicalizeWin(fs, text) ELSE CanonicalizeUnix(fs, text)

\* ------------------------------------------------------------------ state
VARIABLES
    windows,             \* the build: cfg(windows) or not
    fs,                  \* the filesystem: [cwd, exists, denied]
    path,                \* the call's input text
    mode,                \* options.mode
    pc,                  \* where the call is
    normalized_pathbuf,  \* the accumulating result of the lexical loop
    idx,                 \* the next component of path.components()
    result,              \* what the call returned
    canonSeen,           \* what fs::canonicalize(path) returned to this call
    cwdSeen,             \* what fs::canonicalize(".") returned to this call
    accesses,            \* the filesystem accesses of this call, in order
    fsAtCall,            \* the filesystem when the call was entered
    fsAtCanon,           \* the filesystem when fs::canonicalize(path) ran
    fsOps,               \* mutations made by the concurrent process
    prev                 \* the caller's previous call, if it made one

vars == <<windows, fs, path, mode, pc, normalized_pathbuf, idx, result,
          canonSeen, cwdSeen, accesses, fsAtCall, fsAtCanon, fsOps, prev>>

NoResult == [kind |-> "none", val |-> <<>>, err |-> ""]
OkResult(text) == [kind |-> "Ok", val |-> text, err |-> ""]
ErrResult(err) == [kind |-> "Err", val |-> <<>>, err |-> err]

NotCalled == [kind |-> "none", err |-> "", pb |-> NoPath]
NoPrev == [made |-> FALSE, path |-> <<>>, mode |-> "", result |-> NoResult,
           canonSeen |-> NotCalled, accesses |-> <<>>, how |-> ""]

\* ----------------------------------------------------------------- inputs
PathChars == {"/", ".", "n"}

Texts(k) == UNION {[1..m -> PathChars] : m \in 0..k}

\* inputs longer than MaxLen or outside PathChars that the claims speak of
ExtraInputs ==
    { <<".",".","/",".",".","/","n">>,
      <<".",".","/",".",".","/",".",".","/","n">>,
      <<"n","/",".",".","/",".",".","/","n","n">>,
      <<".","/","n","u","l">>,
      <<"n","u","l","/">>,
      <<"n",":","n">>, <<"n",":">>, <<"n",":","/","n">>, <<"n",":",".",".","/","n">>,
      <<"N",":","\\","n","n">> }

\* every reserved name as written in the table, in lower case, and mixed
ReservedInputs ==
    RESERVED_NAMES
    \cup { <<"n","u","l">>, <<"n","U","L">>, <<"N","u","l">>, <<"c","o","n">>,
           <<"c","O","m","1">>, <<"l","p","t","9">>, <<"a","u","X">> }

\* on Windows the model of the platform covers drive and rootless or rooted
\* texts whose names Win32 takes as they are: no leading double separator,
\* no name the Win32 layer rewrites or reserves
WinPlain(text) ==
    /\ ~(Len(text) >= 2 /\ IsSep(text[1], TRUE) /\ IsSep(text[2], TRUE))
    /\ \A i \in 1..Len(Components(text, TRUE)) :
          Components(text, TRUE)[i].kind = "Normal"
              => SafeName(Components(text, TRUE)[i].name)

InputsFor(win) ==
    IF win THEN {t \in Texts(MaxLen) \cup ExtraInputs : WinPlain(t)} \cup ReservedInputs
    ELSE Texts(MaxLen) \cup ExtraInputs \cup {<<"n","u","l">>, <<"N","U","L">>}

FsNames == {<<"n">>}

AllDirs == UNION {[1..d -> FsNames] : d \in 1..MaxDepth}

PrefixClosed(dirs) == \A d \in dirs : Parent(d) = <<>> \/ Parent(d) \in dirs

\* a process on Windows holds its working directory open, so it exists;
\* elsewhere it may have been removed under the process
FsStates(win) ==
    { [cwd |-> c, exists |-> e, denied |-> x] :
        c \in AllDirs \cup {<<>>},
        e \in {s \in SUBSET AllDirs : PrefixClosed(s)},
        x \in {{}} \cup {{<<>>}} \cup {{d} : d \in AllDirs} } 

ValidFs(f, win) ==
    /\ f.denied \subseteq f.exists \cup {<<>>}
    /\ win => Exists(f, f.cwd)

ScenarioCwd == << <<"h","o","m","e">>, <<"u","s","e","r">>,
                  <<"p","r","o","j","e","c","t">> >>
ScenarioInput == <<".","/","s","r","c","/",".",".","/","l","i","b","/",
                   "m","o","d",".","r","s">>
ScenarioFs == [cwd |-> ScenarioCwd,
               exists |-> {SubSeq(ScenarioCwd, 1, k) : k \in 1..3},
               denied |-> {}]

\* ------------------------------------------------------------------- Init
Entered(f) ==
    /\ pc = "start"
    /\ normalized_pathbuf = NoPath
    /\ idx = 0
    /\ result = NoResult
    /\ canonSeen = NotCalled
    /\ cwdSeen = NotCalled
    /\ accesses = <<>>
    /\ fsAtCall = f
    /\ fsAtCanon = f
    /\ fsOps = 0

InitEnum ==
    /\ windows \in BOOLEAN
    /\ fs \in {f \in FsStates(windows) : ValidFs(f, windows)}
    /\ path \in InputsFor(windows)
    /\ mode \in NormalizeMode
    /\ prev = NoPrev
    /\ Entered(fs)

InitScenario ==
    /\ windows = FALSE
    /\ fs = ScenarioFs
    /\ path = ScenarioInput
    /\ mode \in NormalizeMode
    /\ prev = NoPrev
    /\ Entered(fs)

Init == InitEnum \/ InitScenario

\* ---------------------------------------------------------------- actions
\* faulty variant: the decision is taken on what an earlier look at the filesystem saw
FsSeenEarlier(live, atEntry) == atEntry

\* fs::canonicalize reads the filesystem as it is at the call
FsSeen(live, atEntry) == live

\* faulty variant: Hybrid gives up like Strict
ReturnsErrorHybridToo(err, m) == err = "NotFound" /\ m \in {"Strict", "Hybrid"}

\* faulty variant: the test of the mode is lost
ReturnsErrorNever(err, m) == FALSE

\* the one failure returned at once: NotFound under Strict
ReturnsError(err, m) == err = "NotFound" /\ m = "Strict"

\* faulty variant: the verified path is handed back without its root
VerifiedResultNoRoot(pb, win) ==
    OkResult(Render(Simplified([pb EXCEPT !.root = FALSE], win), win))

\* line 67: Ok(dunce::simplified(&pathbuf).to_path_buf())
VerifiedResult(pb, win) == OkResult(Render(Simplified(pb, win), win))

\* lines 60-63
CheckReserved ==
    /\ pc = "start"
    /\ IF is_reserved_path(path, windows)
          THEN /\ result' = OkResult(to_ascii_uppercase(path))
               /\ pc' = "done"
          ELSE /\ result' = result
               /\ pc' = "canonicalize"
    /\ UNCHANGED <<windows, fs, path, mode, normalized_pathbuf, idx, canonSeen,
                   cwdSeen, accesses, fsAtCall, fsAtCanon, fsOps, prev>>

\* lines 65-73
CanonicalizePath ==
    /\ pc = "canonicalize"
    /\ LET r == Canonicalize(FsSeen(fs, fsAtCall), path, windows)
       IN  /\ canonSeen' = r
           /\ IF r.kind = "Ok"
                 THEN /\ result' = VerifiedResult(r.pb, windows)
                      /\ pc' = "done"
                 ELSE IF ReturnsError(r.err, mode)
                 THEN /\ result' = ErrResult(r.err)
                      /\ pc' = "done"
                 ELSE /\ result' = result
                      /\ pc' = "canonicalize_cwd"
    /\ fsAtCanon' = fs
    /\ accesses' = Append(accesses, <<"canonicalize", path>>)
    /\ UNCHANGED <<windows, fs, path, mode, normalized_pathbuf, idx, cwdSeen,
                   fsAtCall, fsOps, prev>>

\* line 74
CanonicalizeCwd ==
    /\ pc = "canonicalize_cwd"
    /\ LET r == Canonicalize(fs, Dot, windows)
       IN  /\ cwdSeen' = r
           /\ IF r.kind = "Err"
                 THEN /\ result' = ErrResult(r.err)
                      /\ pc' = "done"
                      /\ UNCHANGED <<normalized_pathbuf, idx>>
                 ELSE /\ normalized_pathbuf' = r.pb
                      /\ idx' = 1
                      /\ pc' = "components"
                      /\ result' = result
    /\ accesses' = Append(accesses, <<"canonicalize", Dot>>)
    /\ UNCHANGED <<windows, fs, path, mode, canonSeen, fsAtCall, fsAtCanon,
                   fsOps, prev>>

AtComponent(kinds) ==
    /\ pc = "components"
    /\ idx <= Len(Components(path, windows))
    /\ Components(path, windows)[idx].kind \in kinds

LoopFrame ==
    /\ idx' = idx + 1
    /\ UNCHANGED <<windows, fs, path, mode, pc, result, canonSeen, cwdSeen,
                   accesses, fsAtCall, fsAtCanon, fsOps, prev>>

\* lines 77-79
LoopParentDir ==
    /\ AtComponent({"ParentDir"})
    /\ normalized_pathbuf' = Pop(normalized_pathbuf)
    /\ LoopFrame

\* line 80
LoopCurDir ==
    /\ AtComponent({"CurDir"})
    /\ normalized_pathbuf' = normalized_pathbuf
    /\ LoopFrame

\* lines 81-83
LoopOther ==
    /\ AtComponent({"Prefix", "RootDir", "Normal"})
    /\ normalized_pathbuf' = Push(normalized_pathbuf, Components(path, windows)[idx])
    /\ LoopFrame

\* lines 86-87
ReturnLexical ==
    /\ pc = "components"
    /\ idx > Len(Components(path, windows))
    /\ result' = OkResult(Render(Simplified(normalized_pathbuf, windows), windows))
    /\ pc' = "done"
    /\ UNCHANGED <<windows, fs, path, mode, normalized_pathbuf, idx, canonSeen,
                   cwdSeen, accesses, fsAtCall, fsAtCanon, fsOps, prev>>

\* the caller's second call
Reenter(p, m, how) ==
    /\ pc = "done"
    /\ ~prev.made
    /\ prev' = [made |-> TRUE, path |-> path, mode |-> mode, result |-> result,
                canonSeen |-> canonSeen, accesses |-> accesses, how |-> how]
    /\ path' = p
    /\ mode' = m
    /\ pc' = "start"
    /\ normalized_pathbuf' = NoPath
    /\ idx' = 0
    /\ result' = NoResult
    /\ canonSeen' = NotCalled
    /\ cwdSeen' = NotCalled
    /\ accesses' = <<>>
    /\ fsAtCall' = fs
    /\ fsAtCanon' = fs
    /\ UNCHANGED <<windows, fs, fsOps>>

\* the same path again, under any mode
CallAgain == \E m \in NormalizeMode : Reenter(path, m, "again")

\* normalize(normalize(P)): the returned path as the next input
CallOnResult == result.kind = "Ok" /\ Reenter(result.val, mode, "on_result")

\* a concurrent process creates a directory
Mkdir ==
    \E d \in AllDirs \ fs.exists :
        /\ fsOps < MaxFsOps
        /\ Exists(fs, Parent(d))
        /\ fs' = [fs EXCEPT !.exists = @ \cup {d}]
        /\ fsOps' = fsOps + 1
        /\ UNCHANGED <<windows, path, mode, pc, normalized_pathbuf, idx, result,
                       canonSeen, cwdSeen, accesses, fsAtCall, fsAtCanon, prev>>

\* a concurrent process removes an empty directory
Rmdir ==
    \E d \in fs.exists :
        /\ fsOps < MaxFsOps
        /\ \A e \in fs.exists : Parent(e) # d
        /\ windows => d # fs.cwd
        /\ fs' = [fs EXCEPT !.exists = @ \ {d}, !.denied = @ \ {d}]
        /\ fsOps' = fsOps + 1
        /\ UNCHANGED <<windows, path, mode, pc, normalized_pathbuf, idx, result,
                       canonSeen, cwdSeen, accesses, fsAtCall, fsAtCanon, prev>>

\* a concurrent process takes away or gives back access to a directory
Chmod ==
    \E d \in fs.exists \cup {<<>>} :
        /\ fsOps < MaxFsOps
        /\ fs' = [fs EXCEPT !.denied = IF d \in @ THEN @ \ {d} ELSE @ \cup {d}]
        /\ fsOps' = fsOps + 1
        /\ UNCHANGED <<windows, path, mode, pc, normalized_pathbuf, idx, result,
                       canonSeen, cwdSeen, accesses, fsAtCall, fsAtCanon, prev>>

CallStep ==
    \/ CheckReserved
    \/ CanonicalizePath
    \/ CanonicalizeCwd
    \/ LoopParentDir
    \/ LoopCurDir
    \/ LoopOther
    \/ ReturnLexical

\* one caller, a filesystem nobody else touches
Next == CallStep \/ CallAgain \/ CallOnResult

Spec == Init /\ [][Next]_vars

\* one call, with a concurrent process mutating the filesystem
ConcInputs ==
    { <<"n">>, <<"n","/","n">>, <<".",".","/","n">>, <<"/","n">>, <<".">>,
      <<"n","u","l">>, <<"n","n">> }

InitConc ==
    /\ windows \in BOOLEAN
    /\ fs \in {f \in FsStates(windows) : ValidFs(f, windows) /\ f.denied = {}}
    /\ path \in ConcInputs
    /\ mode \in NormalizeMode
    /\ prev = NoPrev
    /\ Entered(fs)

NextConc == CallStep \/ Mkdir \/ Rmdir \/ Chmod

SpecConc == InitConc /\ [][NextConc]_vars

\* ================================================================= claims
Reserved == is_reserved_path(path, windows)

CanonNotFound == canonSeen.kind = "Err" /\ canonSeen.err = "NotFound"
CanonOtherError == canonSeen.kind = "Err" /\ canonSeen.err # "NotFound"

\* C1: when fs::canonicalize(path) fails with a kind other than NotFound, the
\* call returns that error in every mode; it never ends in an Ok built by the
\* lexical resolver.
C1_OtherErrorsPropagate ==
    (pc = "done" /\ CanonOtherError) => result = ErrResult(canonSeen.err)

\* C2: under Strict a NotFound from fs::canonicalize(path) is returned as it
\* is: no working-directory lookup, no lexical loop, never Ok.
C2_StrictReturnsNotFound ==
    (mode = "Strict" /\ CanonNotFound) =>
        /\ pc = "done"
        /\ result = ErrResult("NotFound")
        /\ cwdSeen = NotCalled
        /\ Len(accesses) = 1

C2_Witness ==
    /\ pc = "done" /\ mode = "Strict" /\ CanonNotFound
    /\ result.kind = "Err"
    /\ Len(Components(path, windows)) >= 2

\* the lexical resolution the specification describes, on the names alone:
\* ".." drops the last name if there is one, "." is skipped, a name is added
RECURSIVE RefNames(_, _, _)
RefNames(names, comps, i) ==
    IF i > Len(comps) THEN names
    ELSE IF comps[i].kind = "ParentDir"
         THEN RefNames(IF names = <<>> THEN <<>> ELSE SubSeq(names, 1, Len(names) - 1),
                       comps, i + 1)
    ELSE IF comps[i].kind = "Normal" THEN RefNames(Append(names, comps[i].name), comps, i + 1)
    ELSE RefNames(names, comps, i + 1)

HasKind(comps, k) == \E i \in 1..Len(comps) : comps[i].kind = k

\* where the resolution starts: the input's own prefix and root when it has
\* them, the working directory otherwise
RefResolve(base, comps) ==
    LET anchored == HasKind(comps, "Prefix") \/ HasKind(comps, "RootDir")
        start == IF HasKind(comps, "Prefix")
                    THEN PathBufOf(comps[1].name[1], comps[1].name[2],
                                   HasKind(comps, "RootDir"), <<>>)
                 ELSE IF HasKind(comps, "RootDir")
                    THEN PathBufOf(base.prefix, base.drive, TRUE, <<>>)
                 ELSE base
    IN  [start EXCEPT !.names = RefNames(start.names, comps, 1)]

ScenarioOutput == <<"/","h","o","m","e","/","u","s","e","r","/",
                    "p","r","o","j","e","c","t","/","l","i","b","/",
                    "m","o","d",".","r","s">>

Spells(text, r) ==
    /\ Len(text) = Len(r)
    /\ \A i \in 1..Len(r) :
          \/ text[i] = r[i]
          \/ \E k \in 1..26 : UpperChars[k] = r[i] /\ LowerChars[k] = text[i]

SpelledReserved(text) == {r \in RESERVED_NAMES : Spells(text, r)}

\* C4: on the build with reserved names, a text that spells a reserved name
\* in any case returns Ok of the upper-case name at once, in every mode and
\* filesystem state, with no canonicalize call and no lexical step.
C4_ReservedShortCircuit ==
    (windows /\ pc # "start" /\ SpelledReserved(path) # {}) =>
        /\ pc = "done"
        /\ \E r \in SpelledReserved(path) : result = OkResult(r)
        /\ accesses = <<>>
        /\ canonSeen = NotCalled /\ cwdSeen = NotCalled
        /\ normalized_pathbuf = NoPath

C4_Witness ==
    /\ windows /\ pc = "done"
    /\ path = <<"n","U","L">>
    /\ result = OkResult(<<"N","U","L">>)
    /\ fs.denied # {}

IsAbsoluteText(text, win) ==
    HasRoot(text, win) /\ (win => PrefixKind(text, win) # "none")

\* C5: every Ok result for a non-reserved input is an absolute path with no
\* "." and no ".." component.
C5_OkResultAbsoluteAndDotFree ==
    (pc = "done" /\ result.kind = "Ok" /\ ~Reserved) =>
        /\ IsAbsoluteText(result.val, windows)
        /\ ~HasKind(Components(result.val, windows), "CurDir")
        /\ ~HasKind(Components(result.val, windows), "ParentDir")

\* C6: for a path that exists, with the filesystem unchanged, normalize
\* succeeds, a second call returns the same value, and normalize of the
\* returned value returns it again.
C6_ExistingPathStableAndIdempotent ==
    /\ (pc = "done" /\ canonSeen.kind = "Ok") => result.kind = "Ok"
    /\ (pc = "done" /\ prev.made /\ prev.canonSeen.kind = "Ok"
            /\ prev.mode = DefaultMode /\ mode = DefaultMode) =>
          /\ prev.how = "again" => path = prev.path
          /\ prev.how = "on_result" => path = prev.result.val
          /\ result = prev.result

C6_Witness ==
    /\ pc = "done" /\ prev.made /\ prev.how = "on_result"
    /\ prev.canonSeen.kind = "Ok"
    /\ prev.mode = DefaultMode /\ mode = DefaultMode
    /\ prev.path # path
    /\ result = prev.result

DotDotDotDotN == <<".",".","/",".",".","/","n">>

\* C7: a ".." step of the lexical loop removes exactly the last name of the
\* accumulating result and changes nothing else; at the root (or bare prefix)
\* it changes nothing; the loop goes on without an error.  So ../../n against
\* a working directory of depth >= 2 is that directory less two names, plus n.
C7_ParentDirPopsClampedAtRoot ==
    /\ [][LoopParentDir =>
            /\ normalized_pathbuf'.prefix = normalized_pathbuf.prefix
            /\ normalized_pathbuf'.drive = normalized_pathbuf.drive
            /\ normalized_pathbuf'.root = normalized_pathbuf.root
            /\ normalized_pathbuf'.names =
                  IF normalized_pathbuf.names = <<>> THEN <<>>
                  ELSE SubSeq(normalized_pathbuf.names, 1,
                              Len(normalized_pathbuf.names) - 1)
            /\ pc' = "components" /\ result' = NoResult]_vars
    /\ []((pc = "done" /\ path = DotDotDotDotN /\ cwdSeen.kind = "Ok"
            /\ Len(cwdSeen.pb.names) >= 2) =>
          result = OkResult(Render(Simplified(
                      [cwdSeen.pb EXCEPT !.names =
                          Append(SubSeq(@, 1, Len(@) - 2), <<"n">>)], windows), windows)))

\* a ".." has just been taken with the accumulating result at its root
C7_Witness ==
    /\ pc = "components" /\ idx = 3
    /\ Components(path, windows)[1].kind = "ParentDir"
    /\ Components(path, windows)[2].kind = "ParentDir"
    /\ Len(cwdSeen.pb.names) = 1
    /\ normalized_pathbuf = [cwdSeen.pb EXCEPT !.names = <<>>]

\* C8: the first filesystem access of a call is fs::canonicalize on the input
\* itself, and what the call does next follows from what that one attempt
\* found in the filesystem of that moment, whatever a concurrent process did
\* before or after: a verified result only if the path resolved then, a
\* returned NotFound or a fallback only if the attempt failed then.
C8_BranchFollowsTheOneAttempt ==
    LET attempt == Canonicalize(fsAtCanon, path, windows)
    IN  /\ accesses # <<>> => accesses[1] = <<"canonicalize", path>>
        /\ canonSeen.kind # "none" => canonSeen = attempt
        /\ (pc = "done" /\ Len(accesses) = 1 /\ result.kind = "Ok") =>
              /\ attempt.kind = "Ok"
              /\ result = OkResult(Render(Simplified(attempt.pb, windows), windows))
        /\ (pc = "done" /\ Len(accesses) = 1 /\ result.kind = "Err") =>
              /\ attempt.kind = "Err" /\ attempt.err = "NotFound"
              /\ result = ErrResult("NotFound")
        /\ Len(accesses) >= 2 => attempt.kind = "Err"
        /\ (Len(accesses) >= 2 /\ CanonNotFound) => attempt.err = "NotFound"

\* a verified result for a path that was missing when the call was entered
\* and is missing again when the call returns
C8_Witness ==
    /\ pc = "done" /\ Len(accesses) = 1 /\ result.kind = "Ok"
    /\ Canonicalize(fsAtCall, path, windows).kind = "Err"
    /\ Canonicalize(fs, path, windows).kind = "Err"

CompsOf(pb) ==
    (IF pb.prefix # "none" THEN <<PrefixComp(pb.prefix, pb.drive)>> ELSE <<>>)
    \o (IF pb.root THEN <<RootDir>> ELSE <<>>)
    \o [i \in 1..Len(pb.names) |-> Normal(pb.names[i])]

\* C10 as stated: every component other than ".." and "." is appended, the
\* accumulating result keeping all the components it had.
C10_EveryOtherComponentAppended ==
    [][LoopOther =>
          CompsOf(normalized_pathbuf') =
              Append(CompsOf(normalized_pathbuf), Components(path, windows)[idx])]_vars

\* C10 amended: a name is appended, the accumulating result keeping all the
\* components it had; a root marker leaves only the result's prefix and the
\* root; a platform prefix leaves only that prefix.
C10_NamesAppendedAnchorsReplace ==
    [][LoopOther =>
          LET c == Components(path, windows)[idx]
              old == CompsOf(normalized_pathbuf)
              new == CompsOf(normalized_pathbuf')
          IN  /\ c.kind = "Normal" => new = Append(old, c)
              /\ c.kind = "RootDir" =>
                    new = SelectSeq(old, LAMBDA x : x.kind = "Prefix") \o <<RootDir>>
              /\ c.kind = "Prefix" => new = <<c>>]_vars

\* an absolute input has just had its root marker pushed
C10_Witness ==
    /\ pc = "components" /\ idx = 2
    /\ Components(path, windows)[1].kind = "RootDir"
    /\ cwdSeen.pb.names # <<>>
    /\ normalized_pathbuf.names = <<>>

====
